---- MODULE Spec2Model ----
(***************************************************************************)
(* RangeSet (src/lib.rs): a set of half-open u64 ranges kept in a          *)
(* TinyVec<[Range<u64>; INLINE_CAPACITY]>.                                 *)
(*                                                                         *)
(* A TinyVec value is the record [heap, items]: heap is TRUE for the       *)
(* TinyVec::Heap variant and FALSE for TinyVec::Inline, items is the       *)
(* stored sequence.  Rust indices are 0-based; At(v, i) reads v[i].        *)
(* A Range is the record [start, end].                                     *)
(***************************************************************************)
EXTENDS Integers, Sequences, FiniteSets, TLC

\* Largest bound a caller passes; points are 0 .. MaxVal - 1.
MaxVal == 5

INLINE_CAPACITY == 2

Vals == 0 .. MaxVal
Points == 0 .. (MaxVal - 1)
Range(s, e) == [start |-> s, end |-> e]
Ranges == { Range(s, e) : s \in Vals, e \in Vals }

Max(a, b) == IF a >= b THEN a ELSE b

\* std::ops::Range::is_empty is !(start < end)
is_empty(range) == ~(range.start < range.end)

\* std::ops::Range::contains is start <= item && item < end
range_contains(range, num) == range.start <= num /\ num < range.end

----------------------------------------------------------------------------
(* The TinyVec operations RangeSet calls. *)

\* TinyVec::new() / Default::default(): the empty inline vector
TinyVecNew == [heap |-> FALSE, items |-> << >>]

At(v, index) == v.items[index + 1]

\* an index read, write or remove-at panics unless index < len
InBounds(v, index) == index < Len(v.items)

\* self.0[index] = item
TinyVecSet(v, index, item) == [v EXCEPT !.items[index + 1] = item]

\* self.0.insert(index, item): an inline vector that is full moves to the heap
TinyVecInsert(v, index, item) ==
  [heap  |-> v.heap \/ Len(v.items) = INLINE_CAPACITY,
   items |-> SubSeq(v.items, 1, index) \o << item >>
               \o SubSeq(v.items, index + 1, Len(v.items))]

\* self.0.push(item)
TinyVecPush(v, item) ==
  [heap  |-> v.heap \/ Len(v.items) = INLINE_CAPACITY,
   items |-> Append(v.items, item)]

\* self.0.remove(index): the variant is kept, a heap vector stays on the heap
TinyVecRemove(v, index) ==
  [heap  |-> v.heap,
   items |-> SubSeq(v.items, 1, index) \o SubSeq(v.items, index + 2, Len(v.items))]

\* self.0.shrink_to_fit(): a heap vector that fits the inline array moves back
TinyVecShrinkToFit(v) ==
  IF ~v.heap THEN v
  ELSE IF Len(v.items) > INLINE_CAPACITY THEN v
  ELSE [heap |-> FALSE, items |-> v.items]

\* self.0.clone(): the variant is kept
TinyVecClone(v) == [heap |-> v.heap, items |-> v.items]

\* vec.extend_from_slice(slice) (a push per element)
RECURSIVE TinyVecExtendFromSlice(_, _)
TinyVecExtendFromSlice(v, slice) ==
  IF slice = << >> THEN v
  ELSE TinyVecExtendFromSlice(TinyVecPush(v, Head(slice)), Tail(slice))

----------------------------------------------------------------------------
(* RangeSet *)

new == TinyVecNew

len(self) == Len(self.items)

empty(self) == self.items = << >>

\* shrink_to_fit that never leaves the heap
shrink_to_fit_keeps_heap(self) == self

shrink_to_fit(self) == TinyVecShrinkToFit(self)

\* clone that keeps the source's variant whatever its length
clone_keeps_variant(self) == TinyVecClone(self)

\* clone that refills the inline array and drops what does not fit
clone_truncates(self) ==
  [heap  |-> FALSE,
   items |-> IF len(self) <= INLINE_CAPACITY THEN self.items
             ELSE SubSeq(self.items, 1, INLINE_CAPACITY)]

clone(self) ==
  IF ~self.heap \/ len(self) > INLINE_CAPACITY
  THEN TinyVecClone(self)
  ELSE TinyVecExtendFromSlice(TinyVecNew, self.items)

\* contains that gives up at an interval starting at the point (>= for >)
RECURSIVE contains_from_early_ge(_, _, _)
contains_from_early_ge(self, num, i) ==
  IF i = len(self) THEN FALSE
  ELSE LET el == At(self, i) IN
       IF el.start >= num THEN FALSE
       ELSE IF range_contains(el, num) THEN TRUE
       ELSE contains_from_early_ge(self, num, i + 1)

\* contains: the for loop from element i on
RECURSIVE contains_from(_, _, _)
contains_from(self, num, i) ==
  IF i = len(self) THEN FALSE
  ELSE LET el == At(self, i) IN
       IF el.start > num THEN FALSE
       ELSE IF range_contains(el, num) THEN TRUE
       ELSE contains_from(self, num, i + 1)

contains(self, num) == contains_from(self, num, 0)

\* contains: the number of iterations its for loop makes from element i on
RECURSIVE contains_iters_from(_, _, _, _)
contains_iters_from(self, num, i, n) ==
  IF i = len(self) THEN n
  ELSE LET el == At(self, i) IN
       IF el.start > num THEN n + 1
       ELSE IF range_contains(el, num) THEN n + 1
       ELSE contains_iters_from(self, num, i + 1, n + 1)

contains_iters(self, num) == contains_iters_from(self, num, 0, 0)

\* The loops below return the vector they leave, the number of loop
\* iterations made (iters) and whether an index was out of bounds (panic: the
\* call stops there).

\* coalescing loop that removes the next interval without taking its end
RECURSIVE insert_coalesce_drops_next(_, _, _)
insert_coalesce_drops_next(v, index, n) ==
  IF Len(v.items) = 0 THEN [vec |-> v, iters |-> n, panic |-> TRUE]
  ELSE IF index = Len(v.items) - 1 THEN [vec |-> v, iters |-> n, panic |-> FALSE]
  ELSE IF ~InBounds(v, index + 1) THEN [vec |-> v, iters |-> n + 1, panic |-> TRUE]
  ELSE LET curr == At(v, index)
           next == At(v, index + 1)
       IN  IF curr.end >= next.start
           THEN insert_coalesce_drops_next(TinyVecRemove(v, index + 1), index, n + 1)
           ELSE [vec |-> v, iters |-> n + 1, panic |-> FALSE]

\* insert: the inner, coalescing while loop; n counts its iterations.
\* len() - 1 underflows on an empty vector; self.0[index + 1] needs index + 1 < len.
RECURSIVE insert_coalesce(_, _, _)
insert_coalesce(v, index, n) ==
  IF Len(v.items) = 0 THEN [vec |-> v, iters |-> n, panic |-> TRUE]
  ELSE IF index = Len(v.items) - 1 THEN [vec |-> v, iters |-> n, panic |-> FALSE]
  ELSE IF ~InBounds(v, index + 1) THEN [vec |-> v, iters |-> n + 1, panic |-> TRUE]
  ELSE LET curr == At(v, index)
           next == At(v, index + 1)
       IN  IF curr.end >= next.start
           THEN insert_coalesce(
                  TinyVecRemove(
                    TinyVecSet(v, index, [curr EXCEPT !.end = Max(next.end, curr.end)]),
                    index + 1),
                  index, n + 1)
           ELSE [vec |-> v, iters |-> n + 1, panic |-> FALSE]

\* insert_body that merges on overlap only, not on touch (>= for > in the
\* first test)
insert_body_gap_only(v, range, index) ==
  LET current == At(v, index) IN
  IF current.start >= range.end
  THEN [vec |-> TinyVecInsert(v, index, range), ret |-> TRUE, iters |-> 0, panic |-> FALSE]
  ELSE IF current.start > range.start
  THEN [vec |-> TinyVecSet(v, index, [current EXCEPT !.start = range.start]),
        ret |-> TRUE, iters |-> 0, panic |-> FALSE]
  ELSE IF range.end <= current.end
  THEN [vec |-> v, ret |-> TRUE, iters |-> 0, panic |-> FALSE]
  ELSE IF range.start <= current.end
  THEN LET c == insert_coalesce(
                  TinyVecSet(v, index, [current EXCEPT !.end = range.end]), index, 0)
       IN  [vec |-> c.vec, ret |-> TRUE, iters |-> c.iters, panic |-> c.panic]
  ELSE [vec |-> v, ret |-> FALSE, iters |-> 0, panic |-> FALSE]

\* insert_body without the test for a range the current interval already holds
insert_body_no_contained_check(v, range, index) ==
  LET current == At(v, index) IN
  IF current.start > range.end
  THEN [vec |-> TinyVecInsert(v, index, range), ret |-> TRUE, iters |-> 0, panic |-> FALSE]
  ELSE IF current.start > range.start
  THEN [vec |-> TinyVecSet(v, index, [current EXCEPT !.start = range.start]),
        ret |-> TRUE, iters |-> 0, panic |-> FALSE]
  ELSE IF range.start <= current.end
  THEN LET c == insert_coalesce(
                  TinyVecSet(v, index, [current EXCEPT !.end = range.end]), index, 0)
       IN  [vec |-> c.vec, ret |-> TRUE, iters |-> c.iters, panic |-> c.panic]
  ELSE [vec |-> v, ret |-> FALSE, iters |-> 0, panic |-> FALSE]

\* insert: one pass through the body of the outer while loop at `index`.
\* ret is TRUE when the body returns, FALSE when it falls through to index += 1.
insert_body(v, range, index) ==
  LET current == At(v, index) IN
  IF current.start > range.end
  THEN [vec |-> TinyVecInsert(v, index, range), ret |-> TRUE, iters |-> 0, panic |-> FALSE]
  ELSE IF current.start > range.start
  THEN [vec |-> TinyVecSet(v, index, [current EXCEPT !.start = range.start]),
        ret |-> TRUE, iters |-> 0, panic |-> FALSE]
  ELSE IF range.end <= current.end
  THEN [vec |-> v, ret |-> TRUE, iters |-> 0, panic |-> FALSE]
  ELSE IF range.start <= current.end
  THEN LET c == insert_coalesce(
                  TinyVecSet(v, index, [current EXCEPT !.end = range.end]), index, 0)
       IN  [vec |-> c.vec, ret |-> TRUE, iters |-> c.iters, panic |-> c.panic]
  ELSE [vec |-> v, ret |-> FALSE, iters |-> 0, panic |-> FALSE]

\* insert: the outer while loop from `index` on, then the push
RECURSIVE insert_loop(_, _, _, _)
insert_loop(v, range, index, n) ==
  IF index = Len(v.items)
  THEN [vec |-> TinyVecPush(v, range), iters |-> n, panic |-> FALSE]
  ELSE IF ~InBounds(v, index) THEN [vec |-> v, iters |-> n + 1, panic |-> TRUE]
  ELSE LET b == insert_body(v, range, index) IN
       IF b.ret THEN [vec |-> b.vec, iters |-> n + 1 + b.iters, panic |-> b.panic]
       ELSE insert_loop(b.vec, range, index + 1, n + 1)

\* insert without the is_empty test
insert_unguarded(self, range) == insert_loop(self, range, 0, 0).vec

insert(self, range) ==
  IF is_empty(range) THEN self ELSE insert_loop(self, range, 0, 0).vec

\* insert, with the iterations it makes and whether it panics
insert_run(self, range) ==
  IF is_empty(range) THEN [vec |-> self, iters |-> 0, panic |-> FALSE]
  ELSE insert_loop(self, range, 0, 0)

\* insert_num: the inner, coalescing while loop
RECURSIVE insert_num_coalesce(_, _, _)
insert_num_coalesce(v, index, n) ==
  IF Len(v.items) = 0 THEN [vec |-> v, iters |-> n, panic |-> TRUE]
  ELSE IF index = Len(v.items) - 1 THEN [vec |-> v, iters |-> n, panic |-> FALSE]
  ELSE IF ~InBounds(v, index + 1) THEN [vec |-> v, iters |-> n + 1, panic |-> TRUE]
  ELSE LET curr == At(v, index)
           next == At(v, index + 1)
       IN  IF curr.end >= next.start
           THEN insert_num_coalesce(
                  TinyVecRemove(
                    TinyVecSet(v, index, [curr EXCEPT !.end = Max(next.end, curr.end)]),
                    index + 1),
                  index, n + 1)
           ELSE [vec |-> v, iters |-> n + 1, panic |-> FALSE]

\* insert_num_body out of step with insert: the second branch also extends
\* the end
insert_num_body_extends_end(v, range, index) ==
  LET current == At(v, index) IN
  IF current.start > range.end
  THEN [vec |-> TinyVecInsert(v, index, range), ret |-> TRUE, iters |-> 0, panic |-> FALSE]
  ELSE IF current.start > range.start
  THEN [vec |-> TinyVecSet(v, index, [current EXCEPT !.start = range.start,
                                                     !.end = Max(current.end, range.end)]),
        ret |-> TRUE, iters |-> 0, panic |-> FALSE]
  ELSE IF range.end <= current.end
  THEN [vec |-> v, ret |-> TRUE, iters |-> 0, panic |-> FALSE]
  ELSE IF range.start <= current.end
  THEN LET c == insert_num_coalesce(
                  TinyVecSet(v, index, [current EXCEPT !.end = range.end]), index, 0)
       IN  [vec |-> c.vec, ret |-> TRUE, iters |-> c.iters, panic |-> c.panic]
  ELSE [vec |-> v, ret |-> FALSE, iters |-> 0, panic |-> FALSE]

\* insert_num: one pass through the body of the outer while loop at `index`
insert_num_body(v, range, index) ==
  LET current == At(v, index) IN
  IF current.start > range.end
  THEN [vec |-> TinyVecInsert(v, index, range), ret |-> TRUE, iters |-> 0, panic |-> FALSE]
  ELSE IF current.start > range.start
  THEN [vec |-> TinyVecSet(v, index, [current EXCEPT !.start = range.start]),
        ret |-> TRUE, iters |-> 0, panic |-> FALSE]
  ELSE IF range.end <= current.end
  THEN [vec |-> v, ret |-> TRUE, iters |-> 0, panic |-> FALSE]
  ELSE IF range.start <= current.end
  THEN LET c == insert_num_coalesce(
                  TinyVecSet(v, index, [current EXCEPT !.end = range.end]), index, 0)
       IN  [vec |-> c.vec, ret |-> TRUE, iters |-> c.iters, panic |-> c.panic]
  ELSE [vec |-> v, ret |-> FALSE, iters |-> 0, panic |-> FALSE]

\* insert_num: the outer while loop from `index` on, then the push
RECURSIVE insert_num_loop(_, _, _, _)
insert_num_loop(v, range, index, n) ==
  IF index = Len(v.items)
  THEN [vec |-> TinyVecPush(v, range), iters |-> n, panic |-> FALSE]
  ELSE IF ~InBounds(v, index) THEN [vec |-> v, iters |-> n + 1, panic |-> TRUE]
  ELSE LET b == insert_num_body(v, range, index) IN
       IF b.ret THEN [vec |-> b.vec, iters |-> n + 1 + b.iters, panic |-> b.panic]
       ELSE insert_num_loop(b.vec, range, index + 1, n + 1)

insert_num(self, start, end) ==
  LET range == Range(start, end) IN
  IF is_empty(range) THEN self ELSE insert_num_loop(self, range, 0, 0).vec

\* insert_num, with the iterations it makes and whether it panics
insert_num_run(self, start, end) ==
  LET range == Range(start, end) IN
  IF is_empty(range) THEN [vec |-> self, iters |-> 0, panic |-> FALSE]
  ELSE insert_num_loop(self, range, 0, 0)

\* remove_body that puts the left piece of a split after the right piece
remove_body_split_swapped(v, range, index) ==
  LET current == At(v, index) IN
  IF range.end <= current.start
  THEN [vec |-> v, index |-> index, ret |-> TRUE]
  ELSE IF range.start >= current.end
  THEN [vec |-> v, index |-> index + 1, ret |-> FALSE]
  ELSE LET left  == Range(current.start, range.start)
           right == Range(range.end, current.end)
       IN  IF is_empty(left) /\ is_empty(right)
           THEN [vec |-> TinyVecRemove(v, index), index |-> index, ret |-> FALSE]
           ELSE IF is_empty(left)
           THEN [vec |-> TinyVecSet(v, index, right), index |-> index + 1, ret |-> FALSE]
           ELSE IF is_empty(right)
           THEN [vec |-> TinyVecSet(v, index, left), index |-> index + 1, ret |-> FALSE]
           ELSE [vec   |-> TinyVecInsert(TinyVecSet(v, index, right), index + 1, left),
                 index |-> index + 2, ret |-> FALSE]

\* remove_body that returns, instead of moving on, at an interval that ends
\* before the range starts
remove_body_returns_on_miss(v, range, index) ==
  LET current == At(v, index) IN
  IF range.end <= current.start
  THEN [vec |-> v, index |-> index, ret |-> TRUE]
  ELSE IF range.start >= current.end
  THEN [vec |-> v, index |-> index + 1, ret |-> TRUE]
  ELSE LET left  == Range(current.start, range.start)
           right == Range(range.end, current.end)
       IN  IF is_empty(left) /\ is_empty(right)
           THEN [vec |-> TinyVecRemove(v, index), index |-> index, ret |-> FALSE]
           ELSE IF is_empty(left)
           THEN [vec |-> TinyVecSet(v, index, right), index |-> index + 1, ret |-> FALSE]
           ELSE IF is_empty(right)
           THEN [vec |-> TinyVecSet(v, index, left), index |-> index + 1, ret |-> FALSE]
           ELSE [vec   |-> TinyVecInsert(TinyVecSet(v, index, right), index, left),
                 index |-> index + 2, ret |-> FALSE]

\* remove_body that returns once it has deleted an interval
remove_body_stops_after_delete(v, range, index) ==
  LET current == At(v, index) IN
  IF range.end <= current.start
  THEN [vec |-> v, index |-> index, ret |-> TRUE]
  ELSE IF range.start >= current.end
  THEN [vec |-> v, index |-> index + 1, ret |-> FALSE]
  ELSE LET left  == Range(current.start, range.start)
           right == Range(range.end, current.end)
       IN  IF is_empty(left) /\ is_empty(right)
           THEN [vec |-> TinyVecRemove(v, index), index |-> index, ret |-> TRUE]
           ELSE IF is_empty(left)
           THEN [vec |-> TinyVecSet(v, index, right), index |-> index + 1, ret |-> FALSE]
           ELSE IF is_empty(right)
           THEN [vec |-> TinyVecSet(v, index, left), index |-> index + 1, ret |-> FALSE]
           ELSE [vec   |-> TinyVecInsert(TinyVecSet(v, index, right), index, left),
                 index |-> index + 2, ret |-> FALSE]

\* remove_body that leaves the index where it was after a split
remove_body_no_advance_on_split(v, range, index) ==
  LET current == At(v, index) IN
  IF range.end <= current.start
  THEN [vec |-> v, index |-> index, ret |-> TRUE]
  ELSE IF range.start >= current.end
  THEN [vec |-> v, index |-> index + 1, ret |-> FALSE]
  ELSE LET left  == Range(current.start, range.start)
           right == Range(range.end, current.end)
       IN  IF is_empty(left) /\ is_empty(right)
           THEN [vec |-> TinyVecRemove(v, index), index |-> index, ret |-> FALSE]
           ELSE IF is_empty(left)
           THEN [vec |-> TinyVecSet(v, index, right), index |-> index + 1, ret |-> FALSE]
           ELSE IF is_empty(right)
           THEN [vec |-> TinyVecSet(v, index, left), index |-> index + 1, ret |-> FALSE]
           ELSE [vec   |-> TinyVecInsert(TinyVecSet(v, index, right), index, left),
                 index |-> index, ret |-> FALSE]

\* remove_body that advances the index after deleting the interval at it
remove_body_skips_after_delete(v, range, index) ==
  LET current == At(v, index) IN
  IF range.end <= current.start
  THEN [vec |-> v, index |-> index, ret |-> TRUE]
  ELSE IF range.start >= current.end
  THEN [vec |-> v, index |-> index + 1, ret |-> FALSE]
  ELSE LET left  == Range(current.start, range.start)
           right == Range(range.end, current.end)
       IN  IF is_empty(left) /\ is_empty(right)
           THEN [vec |-> TinyVecRemove(v, index), index |-> index + 1, ret |-> FALSE]
           ELSE IF is_empty(left)
           THEN [vec |-> TinyVecSet(v, index, right), index |-> index + 1, ret |-> FALSE]
           ELSE IF is_empty(right)
           THEN [vec |-> TinyVecSet(v, index, left), index |-> index + 1, ret |-> FALSE]
           ELSE [vec   |-> TinyVecInsert(TinyVecSet(v, index, right), index, left),
                 index |-> index + 2, ret |-> FALSE]

\* remove: one pass through the body of the while loop at `index`.
\* ret is TRUE when the body returns; index is the index the next pass uses.
remove_body(v, range, index) ==
  LET current == At(v, index) IN
  IF range.end <= current.start
  THEN [vec |-> v, index |-> index, ret |-> TRUE]
  ELSE IF range.start >= current.end
  THEN [vec |-> v, index |-> index + 1, ret |-> FALSE]
  ELSE LET left  == Range(current.start, range.start)
           right == Range(range.end, current.end)
       IN  IF is_empty(left) /\ is_empty(right)
           THEN [vec |-> TinyVecRemove(v, index), index |-> index, ret |-> FALSE]
           ELSE IF is_empty(left)
           THEN [vec |-> TinyVecSet(v, index, right), index |-> index + 1, ret |-> FALSE]
           ELSE IF is_empty(right)
           THEN [vec |-> TinyVecSet(v, index, left), index |-> index + 1, ret |-> FALSE]
           ELSE [vec   |-> TinyVecInsert(TinyVecSet(v, index, right), index, left),
                 index |-> index + 2, ret |-> FALSE]

\* remove: the while loop from `index` on; n counts its iterations
RECURSIVE remove_loop(_, _, _, _)
remove_loop(v, range, index, n) ==
  IF ~(index # Len(v.items) /\ range.start # range.end)
  THEN [vec |-> v, iters |-> n, panic |-> FALSE]
  ELSE IF ~InBounds(v, index) THEN [vec |-> v, iters |-> n + 1, panic |-> TRUE]
  ELSE LET b == remove_body(v, range, index) IN
       IF b.ret THEN [vec |-> b.vec, iters |-> n + 1, panic |-> FALSE]
       ELSE remove_loop(b.vec, range, b.index, n + 1)

\* remove without the is_empty test
remove_unguarded(self, range) == remove_loop(self, range, 0, 0).vec

remove(self, range) ==
  IF is_empty(range) THEN self ELSE remove_loop(self, range, 0, 0).vec

\* remove, with the iterations it makes and whether it panics
remove_run(self, range) ==
  IF is_empty(range) THEN [vec |-> self, iters |-> 0, panic |-> FALSE]
  ELSE remove_loop(self, range, 0, 0)

----------------------------------------------------------------------------
(* One RangeSet driven by any sequence of insert, insert_num and remove.   *)
(*   set       the RangeSet                                                *)
(*   pre       the RangeSet as it was when the last call was made          *)
(*   last      the last call: its name and the bounds it was given         *)
(*             (shrink_to_fit takes none: 0, 0)                            *)
(*   points    the reference: the set of points after the same calls made  *)
(*             as set union and set difference                             *)
(*   viaRange  the same calls, every insertion made through insert         *)
(*   viaNum    the same calls, every insertion made through insert_num     *)
(* Two RangeSet values for the storage and clone behaviour:                *)
(*   orig        the original                                              *)
(*   copy        its clone, once hasCopy                                   *)
(*   justCloned  TRUE from a clone() until the next call on either         *)
(***************************************************************************)
VARIABLES set, pre, last, points, viaRange, viaNum, orig, copy, hasCopy, justCloned

vars == << set, pre, last, points, viaRange, viaNum, orig, copy, hasCopy, justCloned >>
setVars == << set, pre, last, points, viaRange, viaNum >>
storageVars == << orig, copy, hasCopy, justCloned >>

PointsOf(range) == { p \in Points : range_contains(range, p) }

Init ==
  /\ set = new
  /\ pre = new
  /\ last = [op |-> "new", start |-> 0, end |-> 0]
  /\ points = {}
  /\ viaRange = new
  /\ viaNum = new
  /\ orig = new
  /\ copy = new
  /\ hasCopy = FALSE
  /\ justCloned = FALSE

\* a call of insert / insert_num / remove on set, with the call's history
Insert(range) ==
  /\ set' = insert(set, range)
  /\ pre' = set
  /\ last' = [op |-> "insert", start |-> range.start, end |-> range.end]
  /\ viaRange' = insert(viaRange, range)
  /\ viaNum' = insert_num(viaNum, range.start, range.end)
  /\ UNCHANGED << points, storageVars >>

InsertNum(start, end) ==
  /\ set' = insert_num(set, start, end)
  /\ pre' = set
  /\ last' = [op |-> "insert_num", start |-> start, end |-> end]
  /\ viaRange' = insert(viaRange, Range(start, end))
  /\ viaNum' = insert_num(viaNum, start, end)
  /\ UNCHANGED << points, storageVars >>

Remove(range) ==
  /\ set' = remove(set, range)
  /\ pre' = set
  /\ last' = [op |-> "remove", start |-> range.start, end |-> range.end]
  /\ viaRange' = remove(viaRange, range)
  /\ viaNum' = remove(viaNum, range)
  /\ UNCHANGED << points, storageVars >>

ShrinkToFit ==
  /\ set' = shrink_to_fit(set)
  /\ pre' = set
  /\ last' = [op |-> "shrink_to_fit", start |-> 0, end |-> 0]
  /\ viaRange' = shrink_to_fit(viaRange)
  /\ viaNum' = shrink_to_fit(viaNum)
  /\ UNCHANGED << points, storageVars >>

Next ==
  \/ \E range \in Ranges : Insert(range)
  \/ \E start \in Vals, end \in Vals : InsertNum(start, end)
  \/ \E range \in Ranges : Remove(range)
  \/ ShrinkToFit

Spec == Init /\ [][Next]_vars

\* the same calls on set, next to the reference set of points
RefInsert(range) ==
  /\ set' = insert(set, range)
  /\ points' = points \cup PointsOf(range)
  /\ UNCHANGED << pre, last, viaRange, viaNum, storageVars >>

RefInsertNum(start, end) ==
  /\ set' = insert_num(set, start, end)
  /\ points' = points \cup PointsOf(Range(start, end))
  /\ UNCHANGED << pre, last, viaRange, viaNum, storageVars >>

RefRemove(range) ==
  /\ set' = remove(set, range)
  /\ points' = points \ PointsOf(range)
  /\ UNCHANGED << pre, last, viaRange, viaNum, storageVars >>

RefNext ==
  \/ \E range \in Ranges : RefInsert(range)
  \/ \E start \in Vals, end \in Vals : RefInsertNum(start, end)
  \/ \E range \in Ranges : RefRemove(range)

RefSpec == Init /\ [][RefNext]_vars

\* The original and its clone: a call on `who` ("orig" or "copy") replaces that
\* value and leaves the other alone.
Who == {"orig", "copy"}
Target(who) == IF who = "orig" THEN orig ELSE copy
Store(who, v) ==
  /\ who = "copy" => hasCopy
  /\ orig' = IF who = "orig" THEN v ELSE orig
  /\ copy' = IF who = "copy" THEN v ELSE copy
  /\ justCloned' = FALSE
  /\ UNCHANGED << hasCopy, setVars >>

StInsert(who, range) == Store(who, insert(Target(who), range))

StInsertNum(who, start, end) == Store(who, insert_num(Target(who), start, end))

StRemove(who, range) == Store(who, remove(Target(who), range))

StShrinkToFit(who) == Store(who, shrink_to_fit(Target(who)))

\* let copy = orig.clone()
Clone ==
  /\ copy' = clone(orig)
  /\ hasCopy' = TRUE
  /\ justCloned' = TRUE
  /\ UNCHANGED << orig, setVars >>

StorageNext ==
  \/ \E who \in Who, range \in Ranges : StInsert(who, range)
  \/ \E who \in Who, start \in Vals, end \in Vals : StInsertNum(who, start, end)
  \/ \E who \in Who, range \in Ranges : StRemove(who, range)
  \/ \E who \in Who : StShrinkToFit(who)
  \/ Clone

StorageSpec == Init /\ [][StorageNext]_vars

----------------------------------------------------------------------------
lastRange == Range(last.start, last.end)
lastIsInsert == last.op \in {"insert", "insert_num"}
Covered(self) == { p \in Points : contains(self, p) }

\* C1: after any sequence of insert, insert_num and remove calls the stored
\* intervals are strictly ascending by start and each ends no later than the
\* next one starts.
C1_SortedDisjoint ==
  \A i \in 1 .. (Len(set.items) - 1) :
    /\ set.items[i].start < set.items[i + 1].start
    /\ set.items[i].end <= set.items[i + 1].start

C1_Witness ==
  /\ last.op = "remove"
  /\ len(pre) = 2
  /\ len(set) = 3

\* C2: contains(p) is true exactly for the points of the reference set built
\* by the same calls as set union and set difference.
C2_MembershipMatchesReference ==
  \A p \in Points : contains(set, p) <=> p \in points

\* C3: after insert(start..end) with start < end every point of [start, end)
\* is covered.
C3_InsertCoversRange ==
  (last.op = "insert" /\ last.start < last.end)
    => \A p \in PointsOf(lastRange) : contains(set, p)

\* C4: after remove(start..end) with start < end no point of [start, end) is
\* covered and every other point is covered exactly when it was before.
C4_RemoveUncoversExactlyRange ==
  (last.op = "remove" /\ last.start < last.end)
    => \A p \in Points :
         contains(set, p) <=> (contains(pre, p) /\ ~range_contains(lastRange, p))

C4_Witness ==
  /\ last.op = "remove"
  /\ last.start < last.end
  /\ len(pre) = 3
  /\ len(set) = 2
  /\ Covered(set) # Covered(pre)
  /\ \E p \in Points : contains(set, p) /\ p > last.end

\* C5: insert, insert_num and remove with start >= end leave the stored
\* intervals and len() as they were.
C5_DegenerateIsNoOp ==
  (last.op \in {"insert", "insert_num", "remove"} /\ last.start >= last.end)
    => (set.items = pre.items /\ len(set) = len(pre))

C5_Witness ==
  /\ last.op = "remove"
  /\ last.start > last.end
  /\ len(set) = 2
  /\ \E i \in 1 .. len(set) :
       set.items[i].start < last.end /\ last.start < set.items[i].end

\* C6: right after an insert or insert_num call every stored interval ends
\* strictly before the next one starts.
C6_CoalescedAfterInsert ==
  lastIsInsert =>
    \A i \in 1 .. (Len(set.items) - 1) : set.items[i].end < set.items[i + 1].start

C6_Witness ==
  /\ lastIsInsert
  /\ len(pre) = 3
  /\ len(set) = 1
  /\ pre.items[1].end = last.start
  /\ pre.items[3].start = last.end

\* C7: insert_num(a, b) and insert(a..b) store the same intervals: on the set
\* the last call was made on, and along the whole run when one copy takes
\* every insertion through insert and the other through insert_num.
C7_EntryPointsAgree ==
  /\ viaRange = viaNum
  /\ lastIsInsert => insert(pre, lastRange) = insert_num(pre, last.start, last.end)

C7_Witness ==
  /\ lastIsInsert
  /\ last.start < last.end
  /\ len(viaNum) = 1
  /\ len(pre) = 3
  /\ viaNum = viaRange

\* C8: right after clone() the clone stores the same intervals as the
\* original, which clone() leaves as it was; and no later call changes both:
\* a call on the clone leaves the original's intervals and len() alone, and a
\* call on the original leaves the clone's alone.
C8_CloneIndependent ==
  [][ /\ justCloned' => (copy'.items = orig'.items /\ orig' = orig)
      /\ ~justCloned' =>
            \/ (orig'.items = orig.items /\ len(orig') = len(orig))
            \/ (copy'.items = copy.items /\ len(copy') = len(copy)) ]_vars

C8_Witness ==
  /\ hasCopy
  /\ ~justCloned
  /\ len(orig) = 3
  /\ len(copy) = 1
  /\ Covered(orig) \cap Covered(copy) = {}

\* C9: clone() of a set of at most INLINE_CAPACITY intervals is inline, also
\* when the source is on the heap; clone() of a longer set is on the heap.
C9_CloneNormalizesToInline ==
  justCloned =>
    /\ len(orig) <= INLINE_CAPACITY => ~copy.heap
    /\ len(orig) > INLINE_CAPACITY => copy.heap

C9_Witness ==
  /\ justCloned
  /\ orig.heap
  /\ len(orig) = INLINE_CAPACITY
  /\ ~copy.heap
  /\ copy.items = orig.items

\* the last call on set, run again from the set it was made on
lastRun ==
  CASE last.op = "insert"     -> insert_run(pre, lastRange)
    [] last.op = "insert_num" -> insert_num_run(pre, last.start, last.end)
    [] last.op = "remove"     -> remove_run(pre, lastRange)
    [] OTHER                  -> [vec |-> pre, iters |-> 0, panic |-> FALSE]

\* C10: no stored interval is empty.
C10_NoEmptyInterval ==
  \A i \in 1 .. Len(set.items) : set.items[i].start < set.items[i].end

C10_Witness ==
  /\ last.op = "remove"
  /\ len(pre) = 1
  /\ len(set) = 2
  /\ set.items[1].end = set.items[1].start + 1

\* C11: remove(a..b) strictly inside a stored interval [s,e) (s < a < b < e)
\* puts [s,a) and then [b,e) in its place, raises len() by one and leaves
\* every other stored interval as it was.
C11_InteriorRemoveSplits ==
  last.op = "remove" =>
    \A i \in 1 .. len(pre) :
      ( /\ pre.items[i].start < last.start
        /\ last.start < last.end
        /\ last.end < pre.items[i].end )
      => /\ set.items = SubSeq(pre.items, 1, i - 1)
                          \o << Range(pre.items[i].start, last.start),
                                Range(last.end, pre.items[i].end) >>
                          \o SubSeq(pre.items, i + 1, len(pre))
         /\ len(set) = len(pre) + 1

C11_Witness ==
  /\ last.op = "remove"
  /\ len(pre) = 2
  /\ len(set) = 3
  /\ pre.items[2].start < last.start
  /\ last.end < pre.items[2].end
  /\ set.items[1] = pre.items[1]

\* C12: insert(a..b) with s <= a < b <= e for a stored interval [s,e) leaves
\* the stored intervals and len() as they were.
C12_ContainedInsertIsNoOp ==
  ( /\ last.op = "insert"
    /\ last.start < last.end
    /\ \E i \in 1 .. len(pre) :
         pre.items[i].start <= last.start /\ last.end <= pre.items[i].end )
  => (set.items = pre.items /\ len(set) = len(pre))

C12_Witness ==
  /\ last.op = "insert"
  /\ last.start < last.end
  /\ len(pre) = 2
  /\ pre.items[2].start < last.start
  /\ last.end < pre.items[2].end
  /\ set = pre

\* C13: remove(a..b) with a <= the first interval's start and b >= the last
\* interval's end deletes every stored interval.
C13_CoveringRemoveEmpties ==
  ( /\ last.op = "remove"
    /\ len(pre) > 0
    /\ last.start <= pre.items[1].start
    /\ last.end >= pre.items[len(pre)].end )
  => (len(set) = 0 /\ empty(set))

C13_Witness ==
  /\ last.op = "remove"
  /\ len(pre) = 3
  /\ last.start <= pre.items[1].start
  /\ last.end >= pre.items[3].end
  /\ empty(set)

\* C14: insert, insert_num, remove and contains make at most len() + 1 loop
\* iterations, len() taken when the call is made and the coalescing loop of
\* insert counted in.
C14_IterationsBounded ==
  /\ lastRun.iters <= len(pre) + 1
  /\ \A p \in Points : contains_iters(set, p) <= len(set) + 1

C14_Witness ==
  /\ lastIsInsert
  /\ len(pre) = 3
  /\ len(set) = 1
  /\ lastRun.iters = 3
  /\ \E p \in Points : contains_iters(pre, p) = 3

\* C15: no index used by insert, insert_num or remove is out of bounds: no
\* call panics.
C15_NoPanic ==
  ~lastRun.panic

C15_Witness ==
  /\ last.op = "remove"
  /\ len(pre) = 2
  /\ len(set) = 3
  /\ last.end < pre.items[1].end
  /\ pre.items[1].start < last.start
  /\ ~lastRun.panic

\* C16: shrink_to_fit() leaves the stored intervals, len() and every
\* contains(p) as they were, and leaves a set of at most INLINE_CAPACITY
\* intervals inline.
C16_ShrinkToFitKeepsContent ==
  last.op = "shrink_to_fit" =>
    /\ set.items = pre.items
    /\ len(set) = len(pre)
    /\ \A p \in Points : contains(set, p) <=> contains(pre, p)
    /\ len(set) <= INLINE_CAPACITY => ~set.heap

C16_Witness ==
  /\ last.op = "shrink_to_fit"
  /\ pre.heap
  /\ len(pre) = INLINE_CAPACITY
  /\ ~set.heap
  /\ set.items = pre.items

\* C17: contains(p) is true exactly when some stored interval has
\* start <= p < end: the early return at an interval that starts after p
\* skips no interval holding p.
C17_ContainsIsMembership ==
  \A p \in Points :
    contains(set, p) <=>
      \E i \in 1 .. len(set) : set.items[i].start <= p /\ p < set.items[i].end

C17_Witness ==
  /\ len(set) = 3
  /\ contains(set, set.items[3].start)
  /\ ~contains(set, set.items[2].end)
  /\ ~contains(set, set.items[1].end)

\* C18: insert(r) made a second time leaves the stored intervals the first
\* call left.
C18_InsertIdempotent ==
  last.op = "insert" => insert(set, lastRange).items = set.items

\* C19: insert(start..end), start < end, uncovers no point that was covered
\* and covers no point outside [start, end) that was not.
C19_InsertFrame ==
  (last.op = "insert" /\ last.start < last.end) =>
    /\ Covered(pre) \subseteq Covered(set)
    /\ Covered(set) \subseteq (Covered(pre) \cup PointsOf(lastRange))

C19_Witness ==
  /\ last.op = "insert"
  /\ len(pre) = 3
  /\ len(set) < 3
  /\ Covered(set) # Covered(pre)
  /\ pre.items[1].end < last.start
  /\ last.end < pre.items[3].end

\* C20: in every state reachable by insert/insert_num/remove no two stored
\* intervals touch, remove included, and one remove raises len() by at most
\* one.
C20_NeverAdjacent ==
  /\ \A i \in 1 .. (len(set) - 1) : set.items[i].end < set.items[i + 1].start
  /\ last.op = "remove" => len(set) <= len(pre) + 1

C20_Witness ==
  /\ last.op = "remove"
  /\ len(pre) = 2
  /\ len(set) = 2
  /\ set.items[1].end < pre.items[1].end
  /\ set.items[2].start > pre.items[2].start

====
